---- MODULE Spec2Model ----
(***************************************************************************)
(* Model of src/app.py: the cable price dashboard.                         *)
(*                                                                         *)
(*   load_and_process_data  (lines 28-77)   text -> lines -> scan -> df    *)
(*                          one call is one step: nothing can interleave   *)
(*   sidebar selection      (lines 103-122) selected_* and filtered_df     *)
(*   calculate_price_changes(lines 79-90)   per-size change statistics     *)
(*   pivot table            (lines 169-172) filtered_df.pivot(...)         *)
(*                                                                         *)
(* Characters are code points (naturals), strings are sequences of code    *)
(* points, so that Python's string order and the regular expressions can   *)
(* be computed rather than assumed.  None is the empty sequence: a regex   *)
(* group of these patterns is never empty, and Python's truth test         *)
(* `current_year and current_size` treats None and '' alike.               *)
(***************************************************************************)
EXTENDS Integers, Sequences, FiniteSets, TLC

VARIABLES
    text,           \* data.get('text', '')                       (line 33)
    lines,          \* text.split('\n') when the function returned (line 44)
    cable_data,     \* cable_data when the function returned      (line 41)
    df,             \* the DataFrame returned at line 77
    raised,         \* "none" or the exception that ended the script
    pc,             \* position in the script
    selected_years, \* line 104
    selected_sizes, \* line 112
    filtered_df,    \* line 119
    changes,        \* size -> result of calculate_price_changes (line 153)
    pivot_table     \* result of filtered_df.pivot(...)          (line 170)

vars == <<text, lines, cable_data, df, raised, pc, selected_years, selected_sizes, filtered_df,
          changes, pivot_table>>

-----------------------------------------------------------------------------
(* Bounds *)

MaxLines == 5       \* lines in the input text
MaxRecords == 4     \* records in a RecordSet given directly to the analyzer

-----------------------------------------------------------------------------
(* Characters *)

NL == 10            \* '\n'
COMMA == 44         \* ','
DOT == 46           \* '.'
CH_Q == 81          \* 'Q'
CH_S == 83          \* 'S'
CH_YEAR == 45380    \* U+B144, the glyph after the four digits of a year

D(n) == 48 + n      \* the digit character of n

IsDigit(c) == c \in 48..57

None == <<>>

Truthy(v) == v # None

RECURSIVE Join(_, _)
\* the text whose split('\n') is ls
Join(ls, sep) ==
    IF Len(ls) = 0 THEN <<>>
    ELSE IF Len(ls) = 1 THEN ls[1]
    ELSE ls[1] \o <<sep>> \o Join(Tail(ls), sep)

RECURSIVE split(_, _)
\* str.split(sep): always at least one piece, '' gives ['']
split(s, sep) ==
    IF \E i \in 1..Len(s) : s[i] = sep
    THEN LET i == CHOOSE k \in 1..Len(s) :
                     s[k] = sep /\ \A j \in 1..(k - 1) : s[j] # sep
         IN <<SubSeq(s, 1, i - 1)>> \o split(SubSeq(s, i + 1, Len(s)), sep)
    ELSE <<s>>

-----------------------------------------------------------------------------
(* Regular expressions: re.search returns the leftmost match, each         *)
(* quantifier greedy; the operators return group(1) or None.               *)

\* last index of the maximal run of digits starting at i (i - 1 if none)
DigitRunEnd(s, i) ==
    IF i > Len(s) \/ ~IsDigit(s[i]) THEN i - 1
    ELSE CHOOSE j \in i..Len(s) :
             /\ \A k \in i..j : IsDigit(s[k])
             /\ (j = Len(s) \/ ~IsDigit(s[j + 1]))

At(s, i, c) == i >= 1 /\ i <= Len(s) /\ s[i] = c

Leftmost(S) == CHOOSE i \in S : \A j \in S : i <= j

\* year_pattern = r'(\d{4})년'
YearMatchAt(s, i) ==
    /\ i + 4 <= Len(s)
    /\ \A k \in i..(i + 3) : IsDigit(s[k])
    /\ s[i + 4] = CH_YEAR

year_search(s) ==
    LET M == {i \in 1..Len(s) : YearMatchAt(s, i)}
    IN IF M = {} THEN None ELSE SubSeq(s, Leftmost(M), Leftmost(M) + 3)

\* size_pattern = r'(\d+(?:\.\d+)?SQ)'
\* end index of the match starting at i, or 0.  \d+ must take a whole run of
\* digits from its start (what follows is '.' or 'S', never a digit).
SizeMatchEnd(s, i) ==
    LET j == DigitRunEnd(s, i)
        k == DigitRunEnd(s, j + 2)
    IN IF j < i THEN 0
       ELSE IF At(s, j + 1, DOT) /\ k >= j + 2
                 /\ At(s, k + 1, CH_S) /\ At(s, k + 2, CH_Q)
            THEN k + 2
       ELSE IF At(s, j + 1, CH_S) /\ At(s, j + 2, CH_Q)
            THEN j + 2
       ELSE 0

\* a start in the middle of a digit run matches too (the rest of the run)
size_search(s) ==
    LET M == {i \in 1..Len(s) : SizeMatchEnd(s, i) # 0}
    IN IF M = {} THEN None
       ELSE SubSeq(s, Leftmost(M), SizeMatchEnd(s, Leftmost(M)))

\* price_pattern = r'(\d{1,3}(?:,\d{3})*)'
RECURSIVE GroupsEnd(_, _)
\* (?:,\d{3})* from just after index e: index of the last character taken
GroupsEnd(s, e) ==
    IF At(s, e + 1, COMMA) /\ e + 4 <= Len(s)
          /\ \A k \in (e + 2)..(e + 4) : IsDigit(s[k])
    THEN GroupsEnd(s, e + 4)
    ELSE e

Min(a, b) == IF a <= b THEN a ELSE b

price_search(s) ==
    LET M == {i \in 1..Len(s) : IsDigit(s[i])}
        i == Leftmost(M)
        e == Min(DigitRunEnd(s, i), i + 2)     \* \d{1,3}
    IN IF M = {} THEN None ELSE SubSeq(s, i, GroupsEnd(s, e))

RECURSIVE replace(_, _)
\* str.replace(c, '')
replace(s, c) ==
    IF s = <<>> THEN <<>>
    ELSE IF Head(s) = c THEN replace(Tail(s), c)
    ELSE <<Head(s)>> \o replace(Tail(s), c)

RECURSIVE int(_)
\* int() of a string of decimal digits
int(s) ==
    IF s = <<>> THEN 0
    ELSE int(SubSeq(s, 1, Len(s) - 1)) * 10 + (s[Len(s)] - 48)

-----------------------------------------------------------------------------
(* The line scanner, lines 48-70 *)

Record(y, z, p) == [year |-> y, size |-> z, price |-> p]

\* ScanLine with the year kept once set (`if year_match and not current_year`)
ScanLine_KeepFirstYear(st, line) ==
    LET year_match == year_search(line)
        size_match == size_search(line)
        price_match == price_search(line)
        price == int(replace(price_match, COMMA))
    IN IF Truthy(year_match)
       THEN IF Truthy(st.current_year) THEN st
            ELSE [st EXCEPT !.current_year = year_match]
       ELSE IF Truthy(size_match)
       THEN [st EXCEPT !.current_size = size_match]
       ELSE IF Truthy(price_match) /\ Truthy(st.current_year)
                 /\ Truthy(st.current_size) /\ price > 0
       THEN [st EXCEPT !.cable_data =
                 Append(@, Record(int(st.current_year), st.current_size, price))]
       ELSE st

\* ScanLine with `if price >= 0`
ScanLine_NonNegative(st, line) ==
    LET year_match == year_search(line)
        size_match == size_search(line)
        price_match == price_search(line)
        price == int(replace(price_match, COMMA))
    IN IF Truthy(year_match)
       THEN [st EXCEPT !.current_year = year_match]
       ELSE IF Truthy(size_match)
       THEN [st EXCEPT !.current_size = size_match]
       ELSE IF Truthy(price_match) /\ Truthy(st.current_year)
                 /\ Truthy(st.current_size) /\ price >= 0
       THEN [st EXCEPT !.cable_data =
                 Append(@, Record(int(st.current_year), st.current_size, price))]
       ELSE st

\* one iteration of `for line in lines`; st is the loop's local state
ScanLine(st, line) ==
    LET year_match == year_search(line)
        size_match == size_search(line)
        price_match == price_search(line)
        price == int(replace(price_match, COMMA))
    IN IF Truthy(year_match)
       THEN [st EXCEPT !.current_year = year_match]
       ELSE IF Truthy(size_match)
       THEN [st EXCEPT !.current_size = size_match]
       ELSE IF Truthy(price_match) /\ Truthy(st.current_year)
                 /\ Truthy(st.current_size) /\ price > 0
       THEN [st EXCEPT !.cable_data =
                 Append(@, Record(int(st.current_year), st.current_size, price))]
       ELSE st

\* lines 41-46: the state before the first line
ScanStart == [current_year |-> None, current_size |-> None, cable_data |-> <<>>]

RECURSIVE scan(_)
\* lines 48-70: the loop over all of ls
scan(ls) ==
    IF ls = <<>> THEN ScanStart
    ELSE ScanLine(scan(SubSeq(ls, 1, Len(ls) - 1)), ls[Len(ls)])

-----------------------------------------------------------------------------
(* DataFrame operations, lines 73-75 *)

RECURSIVE drop_duplicates_YearSize(_)
\* drop_duplicates(subset=['year', 'size'])
drop_duplicates_YearSize(rows) ==
    IF rows = <<>> THEN <<>>
    ELSE LET init == drop_duplicates_YearSize(SubSeq(rows, 1, Len(rows) - 1))
             last == rows[Len(rows)]
         IN IF \E i \in 1..Len(init) :
                   init[i].year = last.year /\ init[i].size = last.size
            THEN init ELSE Append(init, last)

RECURSIVE drop_duplicates(_)
\* keep='first': a row is dropped when an equal row precedes it
drop_duplicates(rows) ==
    IF rows = <<>> THEN <<>>
    ELSE LET init == drop_duplicates(SubSeq(rows, 1, Len(rows) - 1))
             last == rows[Len(rows)]
         IN IF \E i \in 1..Len(init) : init[i] = last
            THEN init ELSE Append(init, last)

\* Python's < on str: code point by code point, a proper prefix is smaller
StrLess(a, b) ==
    \E i \in 1..(Len(b)) :
        /\ \A k \in 1..(i - 1) : k <= Len(a) /\ a[k] = b[k]
        /\ (i = Len(a) + 1 \/ (i <= Len(a) /\ a[i] < b[i]))

\* sort_values('year')
KeyLess_YearOnly(a, b) == a.year < b.year

\* row a sorts strictly before row b under ['year', 'size']
KeyLess(a, b) ==
    \/ a.year < b.year
    \/ a.year = b.year /\ StrLess(a.size, b.size)

\* insert r after every row that does not sort after it (stable)
Insert(sorted, r) ==
    LET n == Cardinality({i \in 1..Len(sorted) : ~KeyLess(r, sorted[i])})
    IN SubSeq(sorted, 1, n) \o <<r>> \o SubSeq(sorted, n + 1, Len(sorted))

RECURSIVE sort_values(_)
\* df.sort_values(['year', 'size']): a stable sort on the two keys
sort_values(rows) ==
    IF rows = <<>> THEN <<>>
    ELSE Insert(sort_values(SubSeq(rows, 1, Len(rows) - 1)), rows[Len(rows)])

Range(s) == {s[i] : i \in 1..Len(s)}

-----------------------------------------------------------------------------
(* Inputs *)

L_2020 == <<D(2), D(0), D(2), D(0), CH_YEAR>>
L_2023 == <<D(2), D(0), D(2), D(3), CH_YEAR>>
L_2p5SQ == <<D(2), DOT, D(5), CH_S, CH_Q>>
L_10SQ == <<D(1), D(0), CH_S, CH_Q>>
L_1c000 == <<D(1), COMMA, D(0), D(0), D(0)>>
L_1300 == <<D(1), D(3), D(0), D(0)>>
L_0 == <<D(0)>>
L_empty == <<>>

\* lines that some recognizer matches, and all lines
ContentLines == {L_2020, L_2023, L_2p5SQ, L_10SQ, L_1c000, L_1300, L_0}
LineSet == ContentLines \cup {L_empty}

\* the line sequences of the input texts: up to MaxLines recognized lines,
\* or up to MaxLines - 1 lines with unrecognized (empty) lines among them;
\* the empty text is the text of one empty line
IsInputLines(ls) ==
    /\ Len(ls) >= 1
    /\ Len(ls) <= MaxLines
    /\ \A i \in 1..Len(ls) : ls[i] \in LineSet
    /\ (Len(ls) = MaxLines => \A i \in 1..Len(ls) : ls[i] \in ContentLines)

NoPivot == [index |-> {}, columns |-> {}, cells |-> {}]
NoChanges == [z \in {} |-> None]

-----------------------------------------------------------------------------
(* load_and_process_data *)

Init ==
    /\ \E n \in 1..MaxLines : \E ls \in [1..n -> LineSet] :
          IsInputLines(ls) /\ text = Join(ls, NL)
    /\ lines = <<>>
    /\ cable_data = <<>>
    /\ df = <<>>
    /\ raised = "none"
    /\ pc = "start"
    /\ selected_years = {}
    /\ selected_sizes = {}
    /\ filtered_df = <<>>
    /\ changes = NoChanges
    /\ pivot_table = NoPivot

analysisVars == <<selected_years, selected_sizes, filtered_df, changes,
                  pivot_table>>

loadVars == <<text, lines, cable_data, df>>

\* lines 28-77, the call at line 93.  pd.DataFrame([]) has no columns:
\* drop_duplicates returns it unchanged and sort_values(['year', 'size'])
\* raises KeyError('year').
LoadAndProcessData ==
    /\ pc = "start"
    /\ lines' = split(text, NL)
    /\ cable_data' = scan(lines').cable_data
    /\ IF cable_data' = <<>>
       THEN /\ raised' = "KeyError"
            /\ pc' = "failed"
            /\ df' = df
       ELSE /\ df' = sort_values(drop_duplicates(cable_data'))
            /\ pc' = "loaded"
            /\ raised' = raised
    /\ UNCHANGED <<text, analysisVars>>

-----------------------------------------------------------------------------
(* The analyzer: selection, change statistics, pivot *)

\* lines 103 and 111
available_years(rows) == {r.year : r \in Range(rows)}
available_sizes(rows) == {r.size : r \in Range(rows)}

\* the two masks joined by | instead of &
Filter_Or(rows, years, sizes) ==
    SelectSeq(rows, LAMBDA r : r.year \in years \/ r.size \in sizes)

\* lines 119-122: boolean mask indexing keeps the rows whose mask is True,
\* in their order
Filter(rows, years, sizes) ==
    SelectSeq(rows, LAMBDA r : r.year \in years /\ r.size \in sizes)

\* line 80, df[df['size'] == size]
SizeRows(rows, size) == SelectSeq(rows, LAMBDA r : r.size = size)

\* line 80, .sort_values('year'): the default kind is quicksort, which does
\* not fix the order of rows of equal year; every sorted arrangement of the
\* rows is a possible result
sort_values_year(rows) ==
    LET n == Len(rows)
        P == {p \in [1..n -> 1..n] : \A i, j \in 1..n : i # j => p[i] # p[j]}
    IN {q \in {[i \in 1..n |-> rows[p[i]]] : p \in P} :
            \A i \in 1..(n - 1) : q[i].year <= q[i + 1].year}

NoStats == [total_change |-> None, avg_annual_change |-> None]

\* calculate_price_changes without the `if years_diff > 0` test
calculate_price_changes_NoSpanTest(size_data) ==
    IF Len(size_data) >= 2
    THEN LET initial_price == size_data[1].price
             final_price == size_data[Len(size_data)].price
             years_diff == size_data[Len(size_data)].year - size_data[1].year
         IN [total_change |->
                 <<(final_price - initial_price) * 100, initial_price>>,
             avg_annual_change |->
                 <<final_price, initial_price, years_diff>>]
    ELSE NoStats

\* calculate_price_changes with iloc[0] and iloc[-1] exchanged
calculate_price_changes_Swapped(size_data) ==
    IF Len(size_data) >= 2
    THEN LET initial_price == size_data[Len(size_data)].price
             final_price == size_data[1].price
             years_diff == size_data[Len(size_data)].year - size_data[1].year
         IN IF years_diff > 0
            THEN [total_change |->
                      <<(final_price - initial_price) * 100, initial_price>>,
                  avg_annual_change |->
                      <<final_price, initial_price, years_diff>>]
            ELSE NoStats
    ELSE NoStats

\* lines 81-90 on the sorted size_data.  total_change is the quotient
\* <<numerator, denominator>> of ((final - initial) / initial) * 100;
\* avg_annual_change is kept as its operands <<final, initial, years_diff>>
\* of ((final / initial) ** (1 / years_diff) - 1) * 100.
calculate_price_changes(size_data) ==
    IF Len(size_data) >= 2
    THEN LET initial_price == size_data[1].price
             final_price == size_data[Len(size_data)].price
             years_diff == size_data[Len(size_data)].year - size_data[1].year
         IN IF years_diff > 0
            THEN [total_change |->
                      <<(final_price - initial_price) * 100, initial_price>>,
                  avg_annual_change |->
                      <<final_price, initial_price, years_diff>>]
            ELSE NoStats
    ELSE NoStats

\* line 170: DataFrame.pivot raises ValueError ("Index contains duplicate
\* entries, cannot reshape") when two rows share (index, columns)
pivot(rows) ==
    IF \E i, j \in 1..Len(rows) :
           i < j /\ rows[i].size = rows[j].size /\ rows[i].year = rows[j].year
    THEN [error |-> TRUE, table |-> NoPivot]
    ELSE [error |-> FALSE,
          table |-> [index |-> available_sizes(rows),
                     columns |-> available_years(rows),
                     cells |-> Range(rows)]]

\* lines 103-122: one run of the script body with the widgets' values; the
\* multiselects offer exactly the years and sizes of df
Select ==
    /\ \/ pc \in {"loaded", "done"}
       \/ pc = "failed" /\ raised = "ValueError"
    /\ \E ys \in SUBSET available_years(df), zs \in SUBSET available_sizes(df) :
          /\ selected_years' = ys
          /\ selected_sizes' = zs
          /\ filtered_df' = Filter(df, ys, zs)
    /\ changes' = NoChanges
    /\ pivot_table' = NoPivot
    /\ raised' = "none"
    /\ pc' = "changes"
    /\ UNCHANGED loadVars

\* lines 152-153, one iteration of `for size in selected_sizes`
PriceChanges ==
    /\ pc = "changes"
    /\ \E size \in selected_sizes \ DOMAIN changes :
         \E size_data \in sort_values_year(SizeRows(filtered_df, size)) :
            changes' = [z \in DOMAIN changes \cup {size} |->
                           IF z = size THEN calculate_price_changes(size_data)
                           ELSE changes[z]]
    /\ UNCHANGED <<loadVars, raised, pc, selected_years, selected_sizes,
                   filtered_df, pivot_table>>

\* lines 169-172
PivotTable ==
    /\ pc = "changes"
    /\ DOMAIN changes = selected_sizes
    /\ LET res == pivot(filtered_df)
       IN IF res.error
          THEN /\ raised' = "ValueError"
               /\ pc' = "failed"
               /\ pivot_table' = pivot_table
          ELSE /\ pivot_table' = res.table
               /\ pc' = "done"
               /\ raised' = raised
    /\ UNCHANGED <<loadVars, selected_years, selected_sizes, filtered_df,
                   changes>>

NextAnalyze == Select \/ PriceChanges \/ PivotTable

Next == LoadAndProcessData \/ NextAnalyze

Spec == Init /\ [][Next]_vars

-----------------------------------------------------------------------------
(* The analyzer on any RecordSet load_and_process_data can return *)

Years == {2020, 2021, 2023}
Sizes == {L_2p5SQ, L_10SQ}
Prices == {1000, 1300}

Records == {Record(y, z, p) : y \in Years, z \in Sizes, p \in Prices}

\* sorted by (year, size), no row twice, not empty
IsRecordSet(rs) ==
    /\ Len(rs) >= 1
    /\ Len(rs) <= MaxRecords
    /\ \A i \in 1..Len(rs) : rs[i] \in Records
    /\ \A i, j \in 1..Len(rs) : i < j =>
           rs[i] # rs[j] /\ ~KeyLess(rs[j], rs[i])

InitAnalyze ==
    /\ text = <<>>
    /\ lines = <<>>
    /\ cable_data = <<>>
    /\ \E n \in 1..MaxRecords : \E rs \in [1..n -> Records] :
          IsRecordSet(rs) /\ df = rs
    /\ raised = "none"
    /\ pc = "loaded"
    /\ selected_years = {}
    /\ selected_sizes = {}
    /\ filtered_df = <<>>
    /\ changes = NoChanges
    /\ pivot_table = NoPivot

SpecAnalyze == InitAnalyze /\ [][NextAnalyze]_vars

-----------------------------------------------------------------------------
(* Properties *)

IsYearLine(l) == Truthy(year_search(l))
IsSizeLine(l) == ~IsYearLine(l) /\ Truthy(size_search(l))
IsPriceLine(l) == ~IsYearLine(l) /\ ~IsSizeLine(l) /\ Truthy(price_search(l))

Max(S) == CHOOSE i \in S : \A j \in S : j <= i

YearLinesBefore(n) == {j \in 1..(n - 1) : IsYearLine(lines[j])}
SizeLinesBefore(n) == {j \in 1..(n - 1) : IsSizeLine(lines[j])}

Loaded == pc \in {"loaded", "changes", "done"}
             \/ (pc = "failed" /\ raised = "ValueError")

\* the lines among the first n that must have given a record
RecordLines(n) ==
    {m \in 1..n : /\ IsPriceLine(lines[m])
                  /\ YearLinesBefore(m) # {}
                  /\ SizeLinesBefore(m) # {}
                  /\ int(replace(price_search(lines[m]), COMMA)) > 0}

Returned == pc = "loaded"

\* the loop is over, whether or not line 75 then raised
Scanned == Returned \/ raised = "KeyError"

\* C1: when the loop is over, the records of the scan are, in order, one
\* for each price line (of positive value) that has a year line and a size
\* line before it, and none for any other line; each carries the year of the
\* last year line and the size of the last size line before its price line
\* (the state is not reset by a record).
C1_RecordCarriesLatestYearAndSize ==
    Scanned =>
        LET RL == RecordLines(Len(lines))
        IN /\ Len(cable_data) = Cardinality(RL)
           /\ \A m \in RL :
                 LET k == Cardinality({j \in RL : j <= m})
                 IN /\ cable_data[k].year
                          = int(year_search(lines[Max(YearLinesBefore(m))]))
                    /\ cable_data[k].size
                          = size_search(lines[Max(SizeLinesBefore(m))])

\* two price lines in a row have each given a record of the same year and
\* size, after the year had been overwritten by a second year line
C1_Witness ==
    /\ Returned
    /\ Len(lines) = 5
    /\ IsYearLine(lines[1])
    /\ IsYearLine(lines[2])
    /\ lines[1] # lines[2]
    /\ IsSizeLine(lines[3])
    /\ IsPriceLine(lines[4])
    /\ IsPriceLine(lines[5])
    /\ Len(cable_data) = 2
    /\ cable_data[1].year = int(year_search(lines[2]))
    /\ cable_data[2].year = cable_data[1].year
    /\ cable_data[2].size = cable_data[1].size

\* C2: extraction never raises, and returns an empty RecordSet when the scan
\* recognized no record (the empty text included).
C2_ExtractionNeverRaises ==
    pc # "start" =>
        /\ raised # "KeyError"
        /\ cable_data = <<>> => (Loaded /\ df = <<>>)

\* C3: pivoting rows that collide on (size, year) does not fail and gives
\* exactly one cell for each (size, year) of the rows, holding one of the
\* colliding prices.
C3_PivotResolvesCollisions ==
    /\ raised # "ValueError"
    /\ pc = "done" =>
          \A r \in Range(filtered_df) :
              Cardinality({c \in pivot_table.cells :
                               c.size = r.size /\ c.year = r.year}) = 1

YearsOfSize(rows, z) == {r.year : r \in {q \in Range(rows) : q.size = z}}

\* C4: the statistics of a size are (None, None) exactly when its rows in
\* the record set passed in have fewer than two distinct years; otherwise
\* both statistics are present.
C4_AbsentIffFewerThanTwoYears ==
    \A z \in DOMAIN changes :
        /\ changes[z] = NoStats <=> Cardinality(YearsOfSize(filtered_df, z)) < 2
        /\ changes[z] # NoStats =>
               changes[z].total_change # None
               /\ changes[z].avg_annual_change # None

\* absent for: no row at all, one row, two rows of one year; present for a
\* size with two years
C4_Witness ==
    /\ pc = "changes"
    /\ DOMAIN changes = {L_2p5SQ, L_10SQ}
    /\ Len(SizeRows(filtered_df, L_10SQ)) = 2
    /\ Cardinality(YearsOfSize(filtered_df, L_10SQ)) = 1
    /\ changes[L_10SQ] = NoStats
    /\ Cardinality(YearsOfSize(filtered_df, L_2p5SQ)) = 2
    /\ changes[L_2p5SQ] # NoStats

MinOf(S) == CHOOSE i \in S : \A j \in S : i <= j

Example2p5 == <<Record(2020, L_2p5SQ, 1000), Record(2023, L_2p5SQ, 1300)>>

\* C5: when present, total_change * p0 = (p1 - p0) * 100 for the price p0 of
\* a row of the size's earliest year and the price p1 of a row of its latest
\* year in the selection; for {2020, 2.5SQ, 1000}, {2023, 2.5SQ, 1300} it
\* is 30.
C5_TotalChangeFirstToLast ==
    /\ \A z \in DOMAIN changes :
          changes[z] # NoStats =>
              LET rows == {q \in Range(filtered_df) : q.size = z}
                  y0 == MinOf(YearsOfSize(filtered_df, z))
                  y1 == Max(YearsOfSize(filtered_df, z))
                  tc == changes[z].total_change
              IN /\ tc[2] > 0
                 /\ \E r0, r1 \in rows :
                       /\ r0.year = y0
                       /\ r1.year = y1
                       /\ tc[1] * r0.price = (r1.price - r0.price) * 100 * tc[2]
    /\ (filtered_df = Example2p5 /\ L_2p5SQ \in DOMAIN changes) =>
          changes[L_2p5SQ].total_change[1]
              = 30 * changes[L_2p5SQ].total_change[2]

C5_Witness ==
    /\ filtered_df = Example2p5
    /\ L_2p5SQ \in DOMAIN changes
    /\ changes[L_2p5SQ] # NoStats

PosIn(rows, r) == CHOOSE i \in 1..Len(rows) : rows[i] = r

\* C6: filtered_df holds exactly the rows of df whose year is selected and
\* whose size is selected, each once, in the order they have in df; an empty
\* selection of years or of sizes gives no row.
C6_FilterIsSubsequence ==
    (Loaded /\ pc # "loaded") =>
        /\ \A r \in Range(filtered_df) :
              r \in Range(df) /\ r.year \in selected_years
              /\ r.size \in selected_sizes
        /\ \A r \in Range(df) :
              (r.year \in selected_years /\ r.size \in selected_sizes)
                  => r \in Range(filtered_df)
        /\ \A i, j \in 1..Len(filtered_df) :
              i < j => PosIn(df, filtered_df[i]) < PosIn(df, filtered_df[j])
        /\ (selected_years = {} \/ selected_sizes = {}) => filtered_df = <<>>

\* a selection that keeps some rows, in two sizes and two years, and drops
\* others
C6_Witness ==
    /\ pc = "changes"
    /\ Len(filtered_df) >= 2
    /\ Len(filtered_df) < Len(df)
    /\ selected_years # available_years(df)
    /\ Cardinality(selected_sizes) = 2
    /\ filtered_df[1].size # filtered_df[2].size

\* C7: in the returned df, of two consecutive rows the second has a later
\* year, or the same year and a size that is not smaller as a string; "10SQ"
\* comes before "2.5SQ" within a year.
C7_FrameOrdered ==
    Loaded =>
        \A i \in 1..(Len(df) - 1) :
            /\ df[i].year <= df[i + 1].year
            /\ df[i].year = df[i + 1].year =>
                  /\ ~StrLess(df[i + 1].size, df[i].size)
                  /\ ~(df[i].size = L_2p5SQ /\ df[i + 1].size = L_10SQ)

\* the scan met 2.5SQ before 10SQ under one year and df has them reversed
C7_Witness ==
    /\ pc = "loaded"
    /\ Len(cable_data) = 2
    /\ cable_data[1].year = cable_data[2].year
    /\ cable_data[1].size = L_2p5SQ
    /\ cable_data[2].size = L_10SQ
    /\ df[1].size = L_10SQ
    /\ df[2].size = L_2p5SQ

\* C8: the returned df holds every triple the scan produced exactly once and
\* nothing else; two triples differing only in price are both in it.
C8_EachTripleOnce ==
    Loaded =>
        /\ \A r \in Range(cable_data) :
              Cardinality({i \in 1..Len(df) : df[i] = r}) = 1
        /\ Range(df) \subseteq Range(cable_data)

\* the scan produced one triple twice and a third with another price
C8_Witness ==
    /\ pc = "loaded"
    /\ Len(cable_data) = 3
    /\ \E i, j \in 1..3 : i < j /\ cable_data[i] = cable_data[j]
    /\ \E i, j \in 1..3 :
          /\ cable_data[i].year = cable_data[j].year
          /\ cable_data[i].size = cable_data[j].size
          /\ cable_data[i].price # cable_data[j].price
    /\ Len(df) = 2

\* <number>SQ: digits, optionally '.' and digits, then SQ
IsSizeToken(z) ==
    /\ Len(z) >= 3
    /\ z[Len(z) - 1] = CH_S
    /\ z[Len(z)] = CH_Q
    /\ IsDigit(z[1])
    /\ IsDigit(z[Len(z) - 2])
    /\ \A k \in 1..(Len(z) - 2) : IsDigit(z[k]) \/ z[k] = DOT
    /\ Cardinality({k \in 1..(Len(z) - 2) : z[k] = DOT}) <= 1

\* C9: every record of the scan and of the returned df has price > 0 and a
\* size of the form <number>SQ; a price line of value 0 leaves no record.
C9_PricePositiveSizeWellFormed ==
    \A r \in Range(cable_data) \cup Range(df) :
        r.price > 0 /\ IsSizeToken(r.size)

\* a line "0" was scanned with year and size set, and df was returned
C9_Witness ==
    /\ pc = "loaded"
    /\ \E n \in 1..Len(lines) :
          /\ lines[n] = L_0
          /\ YearLinesBefore(n) # {}
          /\ SizeLinesBefore(n) # {}
    /\ Len(df) >= 1

\* a run of digits, ungrouped or grouped in triples by commas, and no more
IsDigitRunLine(l) ==
    /\ l # <<>>
    /\ \/ \A k \in 1..Len(l) : IsDigit(l[k])
       \/ /\ IsDigit(l[1])
          /\ GroupsEnd(l, Min(DigitRunEnd(l, 1), 3)) = Len(l)

\* C10: for every line that is a run of digits (ungrouped or comma-grouped)
\* of positive value, with a year line and a size line before it, the scan
\* holds a record of that year and size whose price is the value of the
\* whole run without its commas.
C10_PriceIsWholeDigitRun ==
    Returned =>
        \A n \in 1..Len(lines) :
            (/\ IsDigitRunLine(lines[n])
             /\ YearLinesBefore(n) # {}
             /\ SizeLinesBefore(n) # {}
             /\ int(replace(lines[n], COMMA)) > 0)
              => Record(int(year_search(lines[Max(YearLinesBefore(n))])),
                        size_search(lines[Max(SizeLinesBefore(n))]),
                        int(replace(lines[n], COMMA))) \in Range(cable_data)

====
